---- MODULE Spec2Model ----
(***************************************************************************)
(* Model of the live-trading execution loop of catalyst.exchange:          *)
(*   ExchangeTradingAlgorithm (algorithm_exchange.py): handle_data, the    *)
(*   four retry wrappers, order(), get_open_orders(), signal_handler;      *)
(*   Exchange.check_open_orders (exchange.py).                             *)
(* The connector (exchange.order, get_order, update_portfolio, ...) is     *)
(* abstract in the source; it is the environment of the model: every call  *)
(* either answers or raises the transient ExchangeRequestError.             *)
(***************************************************************************)
EXTENDS Integers, Sequences, FiniteSets, TLC

\* ---------------------------------------------------------------- bounds
MaxTicks == 2
MaxOrders == 2

\* ------------------------------------------------------ program constants
retry_check_open_orders == 5
retry_update_portfolio == 5
retry_get_open_orders == 5
retry_order == 1
retry_delay == 5

\* Largest setting of a retry attribute tried on a single wrapper call.
MaxRetry == 5

Orders == 1..MaxOrders

VARIABLES
    pc,             \* position of the single thread of control
    tick,           \* number of handle_data calls made by the clock
    is_running,     \* self.is_running
    minute_perfs,   \* self.minute_perfs
    open_orders,    \* ids of self.portfolio.open_orders
    remote,         \* status of each order on the exchange
    placed,         \* number of orders the exchange has accepted
    attempt_index,  \* attempt_index of the running wrapper call
    op,             \* wrapper whose connector operation was invoked last
    calls,          \* invocations of the connector operation in that call
    todo,           \* rest of list(self.portfolio.open_orders) in the pass
    transactions,   \* local list of check_open_orders
    observed,       \* status get_order returned in the current pass
    txresult,       \* value returned by _check_open_orders
    check_exhausted,\* _check_open_orders gave up in this tick
    goo_result,     \* value returned by _get_open_orders
    goo_exhausted,  \* _get_open_orders gave up in its last call
    order_fails,    \* ExchangeRequestErrors seen by the current order() call
    order_outcome,  \* how the last order() call ended
    order_id,       \* value returned by _order
    perf_orders,    \* orders registered with perf_tracker.process_order
    processed,      \* order ids handed to perf_tracker.process_transaction
    created,        \* Transactions constructed per order
    filled_removed, \* orders removed from the open set as FILLED
    tick_steps,     \* steps of handle_data completed in the current call
    skipped,        \* the last handle_data call returned at the flag test
    error,          \* exception that left handle_data / the handler
    report,         \* frame passed to self.analyze
    analyze_calls,  \* calls of self.analyze
    handler_runs,   \* calls of signal_handler
    interrupt_pc,   \* position at which the last interrupt arrived
    in_before_trading_start, \* the before_trading_start callback is running
    failed_ticks,   \* ticks whose performance snapshot raised
    pass_orders,    \* ids in list(self.portfolio.open_orders) of the pass
    polled,         \* get_order calls per order in the current pass
    assets,         \* Exchange.assets: exchange symbol -> symbol of the Asset
    asset_query,    \* argument of the last get_asset call
    asset_result,   \* what the last get_asset call returned or raised
    clock_in,       \* sim_params, calendar and time skew seen by _create_clock
    clock_args,     \* arguments _create_clock passed to ExchangeClock
    clock_ticks,    \* timestamps the clock has emitted, in seconds
    w_name,         \* retry wrapper called on its own
    w_retry,        \* value of its self.retry_* attribute
    w_pc,           \* position inside that wrapper call
    w_index,        \* attempt_index of its innermost frame
    w_events,       \* connector invocations and sleeps of the call, in order
    w_log,          \* attempt indices written by log.warn
    w_outcome,      \* what the last connector invocation did
    w_result        \* value the call returned, or the error it raised

vars == <<pc, tick, is_running, minute_perfs, open_orders, remote, placed,
          attempt_index, op, calls, todo, transactions, observed, txresult,
          check_exhausted, goo_result, goo_exhausted, order_fails,
          order_outcome, order_id, perf_orders, processed, created,
          filled_removed, tick_steps, skipped, error, report, analyze_calls,
          handler_runs, interrupt_pc, in_before_trading_start,
          failed_ticks, pass_orders, polled, assets, asset_query,
          asset_result, clock_in, clock_args, clock_ticks, w_name, w_retry,
          w_pc, w_index, w_events, w_log, w_outcome, w_result>>

\* The variables of the clock.
clockVars == <<clock_in, clock_args, clock_ticks>>

\* The variables of the asset registry.
assetVars == <<assets, asset_query, asset_result>>

\* The variables of a retry wrapper called on its own.
retryVars == <<w_name, w_retry, w_pc, w_index, w_events, w_log, w_outcome,
               w_result>>

\* Python values: a list, or the None a function returns by falling off
\* its end.
ListOf(s) == [kind |-> "list", val |-> s]
NoneSeq == [kind |-> "None", val |-> <<>>]
NoneSet == [kind |-> "None", val |-> {}]
NoId == 0

Range(s) == {s[i] : i \in 1..Len(s)}

\* list(self.portfolio.open_orders): the keys in some iteration order.
KeyLists(S) ==
    {f \in [1..Cardinality(S) -> S] :
        \A i, j \in 1..Cardinality(S) : f[i] = f[j] => i = j}

\* if attempt_index < self.retry_xxx: sleep; recurse with attempt_index + 1
RetryOffByOne(index, retry) == index <= retry
Retry(index, retry) == index < retry

\* ExchangePortfolio.execute_order / remove_order: the order leaves the
\* open-orders mapping.
execute_order(open, o) == open \ {o}
remove_order(open, o) == open \ {o}

\* Body of the loop of Exchange.check_open_orders for one polled order.
ReconcileKeepFilled(open, txs, o, status) ==
    IF status = "FILLED"
    THEN [open |-> open, transactions |-> Append(txs, o)]
    ELSE IF status = "CANCELLED"
    THEN [open |-> remove_order(open, o), transactions |-> txs]
    ELSE [open |-> open, transactions |-> txs]
ReconcileKeepCancelled(open, txs, o, status) ==
    IF status = "FILLED"
    THEN [open |-> execute_order(open, o), transactions |-> Append(txs, o)]
    ELSE [open |-> open, transactions |-> txs]
ReconcileRejectedRemoved(open, txs, o, status) ==
    IF status = "FILLED"
    THEN [open |-> execute_order(open, o), transactions |-> Append(txs, o)]
    ELSE IF status \in {"CANCELLED", "REJECTED"}
    THEN [open |-> remove_order(open, o), transactions |-> txs]
    ELSE [open |-> open, transactions |-> txs]
ReconcileOrder(open, txs, o, status) ==
    IF status = "FILLED"
    THEN [open |-> execute_order(open, o), transactions |-> Append(txs, o)]
    ELSE IF status = "CANCELLED"
    THEN [open |-> remove_order(open, o), transactions |-> txs]
    ELSE [open |-> open, transactions |-> txs]

\* Order of the statements of handle_data, lines 172-200: the step that
\* follows each step.
AfterStrategyFirst(step) ==
    CASE step = "handle_data" -> "update_portfolio"
      [] step = "update_portfolio" -> "strategy"
      [] step = "strategy" -> "check_open_orders"
      [] step = "check_open_orders" -> "process_transactions"
      [] step = "process_transactions" -> "validate"
      [] step = "validate" -> "perf"
      [] OTHER -> "idle"
After(step) ==
    CASE step = "handle_data" -> "update_portfolio"
      [] step = "update_portfolio" -> "check_open_orders"
      [] step = "check_open_orders" -> "process_transactions"
      [] step = "process_transactions" -> "strategy"
      [] step = "strategy" -> "validate"
      [] step = "validate" -> "perf"
      [] OTHER -> "idle"

\* except Exception, line 202: every exception but those that derive from
\* BaseException only (SystemExit, KeyboardInterrupt).
ExceptRequestErrorOnly(e) == e = "ExchangeRequestError"
ExceptException(e) == e \notin {"SystemExit", "KeyboardInterrupt"}

\* validate_account_controls is called in every bar, whether or not the
\* strategy placed an order: lines 181-184.
ValidateAfterOrderOnly(ordered) == ordered
MustValidate(ordered) == TRUE

\* @disallowed_in_before_trading_start(OrderInBeforeTradingStart()), line
\* 227: order() runs its body only outside before_trading_start.
OrderGuardMissing(in_bts) == TRUE
OrderGuard(in_bts) == ~in_bts

\* if not self.is_running: return
GuardIgnored(running) == TRUE
HandleDataGuard(running) == running

\* pd.DataFrame(self.minute_perfs): one row per dict, the columns are the
\* keys of the dicts (none for an empty list).
DataFrame(perfs) ==
    [columns |-> IF Len(perfs) = 0 THEN {} ELSE {"period_close", "transactions"},
     rows |-> perfs]

\* stats.set_index('period_close', drop=True, inplace=True)
set_index_drop_last(df) ==
    [i \in 1..(Len(df.rows) - 1) |->
        [index |-> df.rows[i].period_close,
         transactions |-> df.rows[i].transactions]]
set_index(df) ==
    [i \in 1..Len(df.rows) |->
        [index |-> df.rows[i].period_close,
         transactions |-> df.rows[i].transactions]]

\* ------------------------------------------------------------------ clock
MaxSessions == 2

\* Open and close of session s in the calendar's schedule, in seconds:
\* 09:30 and 16:00 of day s.
SessionOpen(s) == (s - 1) * 24 * 3600 + 9 * 3600 + 30 * 60
SessionClose(s) == (s - 1) * 24 * 3600 + 16 * 3600

NoClockInput ==
    [data_frequency |-> "none", emission_rate |-> "none", time_skew |-> 0,
     sessions |-> 0]
NoClock ==
    [created |-> FALSE, sessions |-> 0, opens |-> <<>>, closes |-> <<>>,
     minute_emission |-> FALSE, time_skew |-> 0]

\* _create_clock, lines 70-114: the arguments handed to ExchangeClock.
\* execution_time_from_open/close of the calendar leave the times as they
\* are.
create_clock_without_skew(in) ==
    LET market_closes == [s \in 1..in.sessions |-> SessionClose(s)]
        market_opens ==
            IF in.data_frequency = "minute"
            THEN [s \in 1..in.sessions |-> SessionOpen(s)]
            ELSE market_closes
        minutely_emission ==
            in.data_frequency = "minute" /\ in.emission_rate = "minute"
    IN [created |-> TRUE, sessions |-> in.sessions,
        opens |-> market_opens, closes |-> market_closes,
        minute_emission |-> minutely_emission, time_skew |-> 0]
create_clock(in) ==
    LET market_closes == [s \in 1..in.sessions |-> SessionClose(s)]
        market_opens ==
            IF in.data_frequency = "minute"
            THEN [s \in 1..in.sessions |-> SessionOpen(s)]
            ELSE market_closes
        minutely_emission ==
            in.data_frequency = "minute" /\ in.emission_rate = "minute"
    IN [created |-> TRUE, sessions |-> in.sessions,
        opens |-> market_opens, closes |-> market_closes,
        minute_emission |-> minutely_emission, time_skew |-> in.time_skew]

\* ExchangeClock: the ticks of session s. Minute emission: one tick per
\* minute from the open to the close; session emission: one tick at the
\* close. The time skew is added to every boundary.
SessionTicks(c, s) ==
    IF c.minute_emission
    THEN [k \in 1..((c.closes[s] - c.opens[s]) \div 60 + 1) |->
            c.opens[s] + c.time_skew + 60 * (k - 1)]
    ELSE <<c.closes[s] + c.time_skew>>

\* ExchangeClock: the ticks of sessions s..c.sessions, in order.
RECURSIVE ClockSchedule(_, _)
ClockSchedule(c, s) ==
    IF s > c.sessions THEN <<>>
    ELSE SessionTicks(c, s) \o ClockSchedule(c, s + 1)

Init ==
    /\ pc = "idle"
    /\ tick = 0
    /\ is_running = TRUE
    /\ minute_perfs = <<>>
    /\ open_orders = {}
    /\ remote = [o \in Orders |-> "NONE"]
    /\ placed = 0
    /\ attempt_index = 0
    /\ op = "none"
    /\ calls = 0
    /\ todo = <<>>
    /\ transactions = <<>>
    /\ observed = [o \in Orders |-> "NONE"]
    /\ txresult = ListOf(<<>>)
    /\ check_exhausted = FALSE
    /\ goo_result = ListOf({})
    /\ goo_exhausted = FALSE
    /\ order_fails = 0
    /\ order_outcome = "none"
    /\ order_id = NoId
    /\ perf_orders = {}
    /\ processed = {}
    /\ created = [o \in Orders |-> 0]
    /\ filled_removed = {}
    /\ tick_steps = <<>>
    /\ skipped = FALSE
    /\ error = "none"
    /\ report = <<>>
    /\ analyze_calls = 0
    /\ handler_runs = 0
    /\ interrupt_pc = "none"
    /\ in_before_trading_start = FALSE
    /\ failed_ticks = {}
    /\ pass_orders = {}
    /\ polled = [o \in Orders |-> 0]
    /\ assets = [k \in {} |-> "none"]
    /\ asset_query = "none"
    /\ asset_result = [kind |-> "none", key |-> "none"]
    /\ clock_in = NoClockInput
    /\ clock_args = NoClock
    /\ clock_ticks = <<>>
    /\ w_name = "none"
    /\ w_retry = 0
    /\ w_pc = "idle"
    /\ w_index = 0
    /\ w_events = <<>>
    /\ w_log = <<>>
    /\ w_outcome = "none"
    /\ w_result = "none"

Alive == pc \notin {"exited", "crashed"}

\* Locals of one handle_data call.
ResetLocals ==
    /\ attempt_index' = 0
    /\ todo' = <<>>
    /\ transactions' = <<>>
    /\ observed' = [o \in Orders |-> "NONE"]
    /\ txresult' = ListOf(<<>>)
    /\ check_exhausted' = FALSE
    /\ goo_result' = ListOf({})
    /\ goo_exhausted' = FALSE
    /\ order_fails' = 0
    /\ order_outcome' = "none"
    /\ order_id' = NoId
    /\ pass_orders' = {}
    /\ polled' = [o \in Orders |-> 0]

\* The clock calls handle_data; lines 168-172.
HandleData ==
    /\ pc = "idle"
    /\ tick < MaxTicks
    /\ tick' = tick + 1
    /\ tick_steps' = <<>>
    /\ ResetLocals
    /\ IF HandleDataGuard(is_running)
       THEN pc' = After("handle_data") /\ skipped' = FALSE
       ELSE pc' = "idle" /\ skipped' = TRUE
    /\ UNCHANGED <<clockVars, assetVars, retryVars, in_before_trading_start, failed_ticks, is_running, minute_perfs, open_orders, remote, placed, op,
                   calls, perf_orders, processed, created, filled_removed,
                   error, report, analyze_calls, handler_runs, interrupt_pc>>

\* One attempt of _update_portfolio.
UpdatePortfolio ==
    /\ pc = "update_portfolio"
    /\ op' = "update_portfolio"
    /\ calls' = IF attempt_index = 0 THEN 1 ELSE calls + 1
    /\ \E ok \in BOOLEAN :
        IF ok \/ ~Retry(attempt_index, retry_update_portfolio)
        THEN /\ pc' = After("update_portfolio")
             /\ attempt_index' = 0
             /\ tick_steps' = Append(tick_steps, "update_portfolio")
        ELSE /\ pc' = "update_portfolio"
             /\ attempt_index' = attempt_index + 1
             /\ UNCHANGED tick_steps
    /\ UNCHANGED <<clockVars, assetVars, retryVars, in_before_trading_start, failed_ticks, pass_orders,
                   polled, tick, is_running, minute_perfs, open_orders, remote, placed,
                   todo, transactions, observed, txresult, check_exhausted,
                   goo_result, goo_exhausted, order_fails, order_outcome,
                   order_id, perf_orders, processed, created, filled_removed,
                   skipped, error, report, analyze_calls, handler_runs,
                   interrupt_pc>>

\* _check_open_orders invokes exchange.check_open_orders: lines 91-93.
CheckOpenOrders ==
    /\ pc = "check_open_orders"
    /\ op' = "check_open_orders"
    /\ calls' = IF attempt_index = 0 THEN 1 ELSE calls + 1
    /\ transactions' = <<>>
    /\ observed' = [o \in Orders |-> "NONE"]
    /\ IF open_orders = {}
       THEN /\ txresult' = ListOf(<<>>)
            /\ todo' = <<>>
            /\ pc' = After("check_open_orders")
            /\ tick_steps' = Append(tick_steps, "check_open_orders")
       ELSE /\ \E s \in KeyLists(open_orders) : todo' = s
            /\ pc' = "get_order"
            /\ UNCHANGED <<txresult, tick_steps>>
    /\ pass_orders' = open_orders
    /\ polled' = [o \in Orders |-> 0]
    /\ UNCHANGED <<clockVars, assetVars, retryVars, in_before_trading_start, failed_ticks, tick, is_running, minute_perfs, open_orders, remote, placed,
                   attempt_index, check_exhausted, goo_result, goo_exhausted,
                   order_fails, order_outcome, order_id, perf_orders,
                   processed, created, filled_removed, skipped, error, report,
                   analyze_calls, handler_runs, interrupt_pc>>

\* One iteration of the loop of check_open_orders: get_order answers.
GetOrder ==
    /\ pc = "get_order"
    /\ todo # <<>>
    /\ LET o == Head(todo)
           status == remote[o]
           r == ReconcileOrder(open_orders, transactions, o, status)
       IN /\ open_orders' = r.open
          /\ transactions' = r.transactions
          /\ observed' = [observed EXCEPT ![o] = status]
          /\ created' = [created EXCEPT
                ![o] = @ + Len(r.transactions) - Len(transactions)]
          /\ filled_removed' =
                IF status = "FILLED" /\ o \notin r.open
                THEN filled_removed \cup {o} ELSE filled_removed
          /\ todo' = Tail(todo)
          /\ IF Tail(todo) = <<>>
             THEN /\ txresult' = ListOf(r.transactions)
                  /\ pc' = After("check_open_orders")
                  /\ tick_steps' = Append(tick_steps, "check_open_orders")
             ELSE /\ pc' = "get_order"
                  /\ UNCHANGED <<txresult, tick_steps>>
    /\ polled' = [polled EXCEPT ![Head(todo)] = @ + 1]
    /\ UNCHANGED <<clockVars, assetVars, retryVars, in_before_trading_start, failed_ticks, pass_orders,
                   tick, is_running, minute_perfs, remote, placed,
                   attempt_index, op, calls, check_exhausted, goo_result,
                   goo_exhausted, order_fails, order_outcome, order_id,
                   perf_orders, processed, skipped, error, report,
                   analyze_calls, handler_runs, interrupt_pc>>

\* get_order raises ExchangeRequestError: the pass is abandoned with its
\* local list, _check_open_orders retries or falls off its end (None).
GetOrderFails ==
    /\ pc = "get_order"
    /\ todo # <<>>
    /\ todo' = <<>>
    /\ IF Retry(attempt_index, retry_check_open_orders)
       THEN /\ attempt_index' = attempt_index + 1
            /\ pc' = "check_open_orders"
            /\ UNCHANGED <<txresult, check_exhausted, tick_steps>>
       ELSE /\ txresult' = NoneSeq
            /\ check_exhausted' = TRUE
            /\ pc' = After("check_open_orders")
            /\ tick_steps' = Append(tick_steps, "check_open_orders")
            /\ UNCHANGED attempt_index
    /\ UNCHANGED <<clockVars, assetVars, retryVars, in_before_trading_start, failed_ticks, pass_orders,
                   polled, tick, is_running, minute_perfs, open_orders, remote, placed,
                   op, calls, transactions, observed, goo_result,
                   goo_exhausted, order_fails, order_outcome, order_id,
                   perf_orders, processed, created, filled_removed, skipped,
                   error, report, analyze_calls, handler_runs, interrupt_pc>>

\* for transaction in transactions: perf_tracker.process_transaction(...)
ProcessTransactions ==
    /\ pc = "process_transactions"
    /\ IF txresult.kind = "None"
       THEN /\ pc' = "crashed"
            /\ error' = "TypeError"
            /\ UNCHANGED <<processed, tick_steps>>
       ELSE /\ processed' = processed \cup Range(txresult.val)
            /\ pc' = After("process_transactions")
            /\ tick_steps' = Append(tick_steps, "process_transactions")
            /\ UNCHANGED error
    /\ attempt_index' = 0
    /\ UNCHANGED <<clockVars, assetVars, retryVars, in_before_trading_start, failed_ticks, pass_orders,
                   polled, tick, is_running, minute_perfs, open_orders, remote, placed,
                   op, calls, todo, transactions, observed, txresult,
                   check_exhausted, goo_result, goo_exhausted, order_fails,
                   order_outcome, order_id, perf_orders, created,
                   filled_removed, skipped, report, analyze_calls,
                   handler_runs, interrupt_pc>>

\* A callback of the strategy calls order(): lines 226-238.
StrategyOrder ==
    /\ pc \in {"strategy", "before_trading_start"}
    /\ placed < MaxOrders
    /\ attempt_index' = 0
    /\ order_fails' = 0
    /\ order_id' = NoId
    /\ IF OrderGuard(in_before_trading_start)
       THEN /\ pc' = "order"
            /\ order_outcome' = "none"
            /\ UNCHANGED error
       ELSE /\ pc' = "crashed"
            /\ order_outcome' = "OrderInBeforeTradingStart"
            /\ error' = "OrderInBeforeTradingStart"
    /\ UNCHANGED <<clockVars, assetVars, retryVars, in_before_trading_start, failed_ticks, pass_orders,
                   polled, tick, is_running, minute_perfs, open_orders, remote, placed,
                   op, calls, todo, transactions, observed, txresult,
                   check_exhausted, goo_result, goo_exhausted, perf_orders,
                   processed, created, filled_removed, tick_steps, skipped,
                   report, analyze_calls, handler_runs, interrupt_pc>>

\* One attempt of _order, and the rest of order() once _order has returned:
\* order = self.portfolio.open_orders[order_id]; process_order(order).
OrderAttempt ==
    /\ pc = "order"
    /\ placed < MaxOrders
    /\ op' = "order"
    /\ calls' = IF attempt_index = 0 THEN 1 ELSE calls + 1
    /\ \E ok \in BOOLEAN :
        IF ok
        THEN LET id == placed + 1
             IN /\ placed' = id
                /\ remote' = [remote EXCEPT ![id] = "OPEN"]
                /\ open_orders' = open_orders \cup {id}
                /\ order_id' = id
                /\ perf_orders' = perf_orders \cup {id}
                /\ order_outcome' = "returned"
                /\ pc' = IF in_before_trading_start
                         THEN "before_trading_start" ELSE "strategy"
                /\ attempt_index' = 0
                /\ UNCHANGED <<order_fails, error>>
        ELSE /\ order_fails' = order_fails + 1
             /\ IF Retry(attempt_index, retry_order)
                THEN /\ attempt_index' = attempt_index + 1
                     /\ pc' = "order"
                     /\ UNCHANGED <<order_outcome, error>>
                ELSE /\ order_outcome' = "KeyError"
                     /\ error' = "KeyError"
                     /\ pc' = "crashed"
                     /\ UNCHANGED attempt_index
             /\ UNCHANGED <<placed, remote, open_orders, order_id,
                            perf_orders>>
    /\ UNCHANGED <<clockVars, assetVars, retryVars, in_before_trading_start, failed_ticks, pass_orders,
                   polled, tick, is_running, minute_perfs, todo, transactions,
                   observed, txresult, check_exhausted, goo_result,
                   goo_exhausted, processed, created, filled_removed,
                   tick_steps, skipped, report, analyze_calls, handler_runs,
                   interrupt_pc>>

\* The strategy callback calls get_open_orders(): lines 262-263.
StrategyGetOpenOrders ==
    /\ pc = "strategy"
    /\ pc' = "get_open_orders"
    /\ attempt_index' = 0
    /\ goo_exhausted' = FALSE
    /\ goo_result' = ListOf({})
    /\ UNCHANGED <<clockVars, assetVars, retryVars, in_before_trading_start, failed_ticks, pass_orders,
                   polled, tick, is_running, minute_perfs, open_orders, remote, placed,
                   op, calls, todo, transactions, observed, txresult,
                   check_exhausted, order_fails, order_outcome, order_id,
                   perf_orders, processed, created, filled_removed,
                   tick_steps, skipped, error, report, analyze_calls,
                   handler_runs, interrupt_pc>>

\* One attempt of _get_open_orders.
GetOpenOrdersAttempt ==
    /\ pc = "get_open_orders"
    /\ op' = "get_open_orders"
    /\ calls' = IF attempt_index = 0 THEN 1 ELSE calls + 1
    /\ \E ok \in BOOLEAN :
        IF ok
        THEN /\ goo_result' = ListOf(open_orders)
             /\ pc' = "strategy"
             /\ attempt_index' = 0
             /\ UNCHANGED goo_exhausted
        ELSE IF Retry(attempt_index, retry_get_open_orders)
        THEN /\ attempt_index' = attempt_index + 1
             /\ pc' = "get_open_orders"
             /\ UNCHANGED <<goo_result, goo_exhausted>>
        ELSE /\ goo_result' = NoneSet
             /\ goo_exhausted' = TRUE
             /\ pc' = "strategy"
             /\ attempt_index' = 0
    /\ UNCHANGED <<clockVars, assetVars, retryVars, in_before_trading_start, failed_ticks, pass_orders,
                   polled, tick, is_running, minute_perfs, open_orders, remote, placed,
                   todo, transactions, observed, txresult, check_exhausted,
                   order_fails, order_outcome, order_id, perf_orders,
                   processed, created, filled_removed, tick_steps, skipped,
                   error, report, analyze_calls, handler_runs, interrupt_pc>>

\* self._handle_data(self, data) returns: line 179.
StrategyReturn ==
    /\ pc = "strategy"
    /\ pc' = After("strategy")
    /\ tick_steps' = Append(tick_steps, "strategy")
    /\ UNCHANGED <<clockVars, assetVars, retryVars, in_before_trading_start, failed_ticks, pass_orders,
                   polled, tick, is_running, minute_perfs, open_orders, remote, placed,
                   attempt_index, op, calls, todo, transactions, observed,
                   txresult, check_exhausted, goo_result, goo_exhausted,
                   order_fails, order_outcome, order_id, perf_orders,
                   processed, created, filled_removed, skipped, error, report,
                   analyze_calls, handler_runs, interrupt_pc>>

\* self.validate_account_controls(): line 184.
ValidateAccountControls ==
    /\ pc = "validate"
    /\ pc' = After("validate")
    /\ tick_steps' = IF MustValidate(order_outcome = "returned")
                     THEN Append(tick_steps, "validate") ELSE tick_steps
    /\ UNCHANGED <<clockVars, assetVars, retryVars, in_before_trading_start, failed_ticks, pass_orders,
                   polled, tick, is_running, minute_perfs, open_orders, remote, placed,
                   attempt_index, op, calls, todo, transactions, observed,
                   txresult, check_exhausted, goo_result, goo_exhausted,
                   order_fails, order_outcome, order_id, perf_orders,
                   processed, created, filled_removed, skipped, error, report,
                   analyze_calls, handler_runs, interrupt_pc>>

\* The try block of handle_data runs to its end: lines 186-200.
RecordPerformance ==
    /\ pc = "perf"
    /\ minute_perfs' = Append(minute_perfs,
            [period_close |-> tick, transactions |-> Cardinality(processed)])
    /\ pc' = After("perf")
    /\ tick_steps' = Append(tick_steps, "perf")
    /\ UNCHANGED <<clockVars, assetVars, retryVars, in_before_trading_start, failed_ticks, pass_orders,
                   polled, tick, is_running, open_orders, remote, placed,
                   attempt_index, op, calls, todo, transactions, observed,
                   txresult, check_exhausted, goo_result, goo_exhausted,
                   order_fails, order_outcome, order_id, perf_orders,
                   processed, created, filled_removed, skipped, error, report,
                   analyze_calls, handler_runs, interrupt_pc>>

\* The performance tracker raises inside the try block: lines 202-203.
PerformanceFails ==
    /\ pc = "perf"
    /\ failed_ticks' = failed_ticks \cup {tick}
    /\ IF ExceptException("PerfError")
       THEN pc' = "idle" /\ UNCHANGED error
       ELSE pc' = "crashed" /\ error' = "PerfError"
    /\ UNCHANGED <<clockVars, assetVars, retryVars, in_before_trading_start, pass_orders,
                   polled, tick, is_running, minute_perfs, open_orders, remote, placed,
                   attempt_index, op, calls, todo, transactions, observed,
                   txresult, check_exhausted, goo_result, goo_exhausted,
                   order_fails, order_outcome, order_id, perf_orders,
                   processed, created, filled_removed, tick_steps, skipped,
                   report, analyze_calls, handler_runs, interrupt_pc>>

\* SIGINT is delivered and signal_handler runs: lines 60-68. set_index
\* raises KeyError when the frame has no column 'period_close'; the
\* KeyError leaves the handler at the point the main thread was interrupted,
\* where only the try block of handle_data catches it.
SignalHandler ==
    /\ Alive
    /\ handler_runs' = handler_runs + 1
    /\ interrupt_pc' = pc
    /\ is_running' = FALSE
    /\ LET stats == DataFrame(minute_perfs)
       IN IF "period_close" \in stats.columns
          THEN /\ report' = set_index(stats)
               /\ analyze_calls' = analyze_calls + 1
               /\ pc' = "exited"
               /\ UNCHANGED error
          ELSE /\ IF pc = "perf" /\ ExceptException("KeyError")
                  THEN pc' = "idle" /\ UNCHANGED error
                  ELSE pc' = "crashed" /\ error' = "KeyError"
               /\ UNCHANGED <<report, analyze_calls>>
    /\ UNCHANGED <<clockVars, assetVars, retryVars, in_before_trading_start, failed_ticks, pass_orders,
                   polled, tick, minute_perfs, open_orders, remote, placed,
                   attempt_index, op, calls, todo, transactions, observed,
                   txresult, check_exhausted, goo_result, goo_exhausted,
                   order_fails, order_outcome, order_id, perf_orders,
                   processed, created, filled_removed, tick_steps, skipped>>

\* The clock emits the before-trading-start event of a session and the
\* algorithm runs the strategy's before_trading_start callback.
BeforeTradingStart ==
    /\ pc = "idle"
    /\ pc' = "before_trading_start"
    /\ in_before_trading_start' = TRUE
    /\ UNCHANGED <<clockVars, assetVars, retryVars, failed_ticks, pass_orders, polled, tick, is_running,
                   minute_perfs, open_orders, remote, placed, attempt_index,
                   op, calls, todo, transactions, observed, txresult,
                   check_exhausted, goo_result, goo_exhausted, order_fails,
                   order_outcome, order_id, perf_orders, processed, created,
                   filled_removed, tick_steps, skipped, error, report,
                   analyze_calls, handler_runs, interrupt_pc>>

\* The before_trading_start callback returns.
BeforeTradingStartReturn ==
    /\ pc = "before_trading_start"
    /\ pc' = "idle"
    /\ in_before_trading_start' = FALSE
    /\ UNCHANGED <<clockVars, assetVars, retryVars, failed_ticks, pass_orders, polled, tick, is_running,
                   minute_perfs, open_orders, remote, placed, attempt_index,
                   op, calls, todo, transactions, observed, txresult,
                   check_exhausted, goo_result, goo_exhausted, order_fails,
                   order_outcome, order_id, perf_orders, processed, created,
                   filled_removed, tick_steps, skipped, error, report,
                   analyze_calls, handler_runs, interrupt_pc>>

\* The strategy callback raises: line 179 is not inside a try block, the
\* exception leaves handle_data.
StrategyRaises ==
    /\ pc = "strategy"
    /\ pc' = "crashed"
    /\ error' = "StrategyError"
    /\ UNCHANGED <<clockVars, assetVars, retryVars, in_before_trading_start, failed_ticks, pass_orders,
                   polled, tick, is_running, minute_perfs, open_orders,
                   remote, placed, attempt_index, op, calls, todo,
                   transactions, observed, txresult, check_exhausted,
                   goo_result, goo_exhausted, order_fails, order_outcome,
                   order_id, perf_orders, processed, created, filled_removed,
                   tick_steps, skipped, report, analyze_calls, handler_runs,
                   interrupt_pc>>

\* get_order raises an error that is not ExchangeRequestError (the order is
\* unknown to the exchange): neither check_open_orders, _check_open_orders
\* nor handle_data catches it.
GetOrderNotFound ==
    /\ pc = "get_order"
    /\ todo # <<>>
    /\ pc' = "crashed"
    /\ error' = "OrderNotFound"
    /\ UNCHANGED <<clockVars, assetVars, retryVars, in_before_trading_start, failed_ticks, pass_orders,
                   polled, tick, is_running, minute_perfs, open_orders,
                   remote, placed, attempt_index, op, calls, todo,
                   transactions, observed, txresult, check_exhausted,
                   goo_result, goo_exhausted, order_fails, order_outcome,
                   order_id, perf_orders, processed, created, filled_removed,
                   tick_steps, skipped, report, analyze_calls, handler_runs,
                   interrupt_pc>>

\* The strategy callback calls cancel_order(): lines 269-274, one direct
\* call of exchange.cancel_order. The exchange cancels the order if it is
\* still open, or the call raises ExchangeRequestError.
CancelOrder ==
    /\ pc = "strategy"
    /\ op' = "cancel_order"
    /\ calls' = 1
    /\ \E o \in 1..placed, ok \in BOOLEAN :
        IF ok
        THEN /\ remote' = [remote EXCEPT
                    ![o] = IF @ = "OPEN" THEN "CANCELLED" ELSE @]
             /\ UNCHANGED <<pc, error>>
        ELSE /\ pc' = "crashed"
             /\ error' = "ExchangeRequestError"
             /\ UNCHANGED remote
    /\ UNCHANGED <<clockVars, assetVars, retryVars, in_before_trading_start, failed_ticks, pass_orders,
                   polled, tick, is_running, minute_perfs, open_orders,
                   placed, attempt_index, todo, transactions, observed,
                   txresult, check_exhausted, goo_result, goo_exhausted,
                   order_fails, order_outcome, order_id, perf_orders,
                   processed, created, filled_removed, tick_steps, skipped,
                   report, analyze_calls, handler_runs, interrupt_pc>>

\* The exchange fills, cancels or rejects an open order.
RemoteChange ==
    /\ Alive
    /\ \E o \in Orders, s \in {"FILLED", "CANCELLED", "REJECTED"} :
        /\ remote[o] = "OPEN"
        /\ remote' = [remote EXCEPT ![o] = s]
    /\ UNCHANGED <<clockVars, assetVars, retryVars, in_before_trading_start, failed_ticks, pass_orders,
                   polled, pc, tick, is_running, minute_perfs, open_orders, placed,
                   attempt_index, op, calls, todo, transactions, observed,
                   txresult, check_exhausted, goo_result, goo_exhausted,
                   order_fails, order_outcome, order_id, perf_orders,
                   processed, created, filled_removed, tick_steps, skipped,
                   error, report, analyze_calls, handler_runs, interrupt_pc>>

Next ==
    \/ HandleData
    \/ UpdatePortfolio
    \/ CheckOpenOrders
    \/ GetOrder
    \/ GetOrderFails
    \/ ProcessTransactions
    \/ StrategyOrder
    \/ OrderAttempt
    \/ StrategyGetOpenOrders
    \/ GetOpenOrdersAttempt
    \/ StrategyReturn
    \/ ValidateAccountControls
    \/ RecordPerformance
    \/ PerformanceFails
    \/ SignalHandler
    \/ RemoteChange
    \/ BeforeTradingStart
    \/ BeforeTradingStartReturn
    \/ StrategyRaises
    \/ GetOrderNotFound
    \/ CancelOrder

Spec == Init /\ [][Next]_vars

\* ------------------------------------------------------- clock operations

LoopAndAssetVars ==
    <<pc, tick, is_running, minute_perfs, open_orders, remote, placed,
      attempt_index, op, calls, todo, transactions, observed, txresult,
      check_exhausted, goo_result, goo_exhausted, order_fails, order_outcome,
      order_id, perf_orders, processed, created, filled_removed, tick_steps,
      skipped, error, report, analyze_calls, handler_runs, interrupt_pc,
      in_before_trading_start, failed_ticks, pass_orders, polled, assets,
      asset_query, asset_result>>

\* _create_generator calls _create_clock for some simulation parameters,
\* session set and connector time skew.
CreateClock ==
    /\ ~clock_args.created
    /\ \E df \in {"minute", "daily"}, er \in {"minute", "daily"},
          skew \in {-2, 0, 2}, n \in 1..MaxSessions :
        LET in == [data_frequency |-> df, emission_rate |-> er,
                   time_skew |-> skew, sessions |-> n]
        IN /\ clock_in' = in
           /\ clock_args' = create_clock(in)
    /\ UNCHANGED clock_ticks
    /\ UNCHANGED LoopAndAssetVars
    /\ UNCHANGED retryVars

\* The clock emits its next tick.
EmitTick ==
    /\ clock_args.created
    /\ LET schedule == ClockSchedule(clock_args, 1)
       IN /\ Len(clock_ticks) < Len(schedule)
          /\ clock_ticks' = Append(clock_ticks, schedule[Len(clock_ticks) + 1])
    /\ UNCHANGED <<clock_in, clock_args>>
    /\ UNCHANGED LoopAndAssetVars
    /\ UNCHANGED retryVars

NextClock ==
    \/ CreateClock
    \/ EmitTick

SpecClock == Init /\ [][NextClock]_vars

\* ---------------------------------------------------------- asset registry

\* Keys of the assets JSON and the symbols its entries may carry.
ExchangeSymbols == {"btcusd", "tBTCUSD", "ethusd"}
Symbols == {"btc_usd", "BTC_USD", "eth_usd", "ETH_USD"}

\* str.lower()
Lower(sym) ==
    CASE sym = "BTC_USD" -> "btc_usd"
      [] sym = "ETH_USD" -> "eth_usd"
      [] OTHER -> sym

\* Documents json.loads can return for assets_json: an object whose keys
\* are exchange symbols, each with a 'symbol' entry.
AssetsJson ==
    UNION {[K -> Symbols] : K \in SUBSET ExchangeSymbols}

\* The loop of get_asset, lines 51-55, over the keys in iteration order:
\* the first key whose symbol equals the argument ignoring case.
RECURSIVE FirstMatch(_, _, _)
FirstMatch(registry, keys, sym) ==
    IF keys = <<>> THEN "none"
    ELSE IF Lower(registry[Head(keys)]) = Lower(sym) THEN Head(keys)
    ELSE FirstMatch(registry, Tail(keys), sym)

\* Exchange.load_assets: every entry of the document becomes an Asset
\* under its exchange symbol; lines 75-88.
LoadAssets ==
    /\ DOMAIN assets = {}
    /\ \E json \in AssetsJson :
        /\ DOMAIN json # {}
        /\ assets' = json
    /\ UNCHANGED <<asset_query, asset_result, clockVars, retryVars>>
    /\ UNCHANGED <<pc, tick, is_running, minute_perfs, open_orders, remote,
                   placed, attempt_index, op, calls, todo, transactions,
                   observed, txresult, check_exhausted, goo_result,
                   goo_exhausted, order_fails, order_outcome, order_id,
                   perf_orders, processed, created, filled_removed,
                   tick_steps, skipped, error, report, analyze_calls,
                   handler_runs, interrupt_pc, in_before_trading_start,
                   failed_ticks, pass_orders, polled>>

\* Exchange.get_asset(symbol): lines 45-60.
GetAsset ==
    /\ \E sym \in Symbols, keys \in KeyLists(DOMAIN assets) :
        LET found == FirstMatch(assets, keys, sym)
        IN /\ asset_query' = sym
           /\ asset_result' =
                IF found = "none"
                THEN [kind |-> "SymbolNotFound", key |-> "none"]
                ELSE [kind |-> "asset", key |-> found]
    /\ UNCHANGED <<assets, clockVars, retryVars>>
    /\ UNCHANGED <<pc, tick, is_running, minute_perfs, open_orders, remote,
                   placed, attempt_index, op, calls, todo, transactions,
                   observed, txresult, check_exhausted, goo_result,
                   goo_exhausted, order_fails, order_outcome, order_id,
                   perf_orders, processed, created, filled_removed,
                   tick_steps, skipped, error, report, analyze_calls,
                   handler_runs, interrupt_pc, in_before_trading_start,
                   failed_ticks, pass_orders, polled>>

NextAssets ==
    \/ LoadAssets
    \/ GetAsset

SpecAssets == Init /\ [][NextAssets]_vars

\* ----------------------------------------------------------- retry wrappers

\* The four wrappers of ExchangeTradingAlgorithm, each called on its own
\* with some value of its retry attribute.
Wrappers ==
    {"_update_portfolio", "_check_open_orders", "_get_open_orders", "_order"}

\* Exceptions a connector operation raises.
ConnectorErrors ==
    {"ExchangeRequestError", "ValueError", "OrderNotFound", "SymbolNotFound"}

\* except ExchangeRequestError as e: lines 149, 160, 217, 251.
ExceptAnyError(e) == TRUE
ExceptExchangeRequestError(e) == e = "ExchangeRequestError"

\* The recursive call passes attempt_index + 1: lines 155, 166, 224, 257.
SameAttempt(index) == index
NextAttempt(index) == index + 1

\* What a wrapper hands back when the operation answers: _update_portfolio
\* has no return statement, the other three return the answer.
Returned(w) == IF w = "_update_portfolio" THEN "None" ELSE "value"

InvokeEvent == [kind |-> "invoke", delay |-> 0]
SleepEvent(d) == [kind |-> "sleep", delay |-> d]

\* A wrapper is called with attempt_index = 0.
CallWrapper ==
    /\ w_pc \in {"idle", "returned", "raised"}
    /\ \E w \in Wrappers, b \in 0..MaxRetry :
        /\ w_name' = w
        /\ w_retry' = b
    /\ w_pc' = "try"
    /\ w_index' = 0
    /\ w_events' = <<>>
    /\ w_log' = <<>>
    /\ w_outcome' = "none"
    /\ w_result' = "none"
    /\ UNCHANGED <<LoopAndAssetVars, clockVars>>

\* The try block invokes the connector operation; the except clause logs
\* the attempt and tests the attempt index against the retry attribute.
InvokeOperation ==
    /\ w_pc = "try"
    /\ w_events' = Append(w_events, InvokeEvent)
    /\ \E out \in {"ok"} \cup ConnectorErrors :
        /\ w_outcome' = out
        /\ IF out = "ok"
           THEN /\ w_pc' = "returned"
                /\ w_result' = Returned(w_name)
                /\ UNCHANGED w_log
           ELSE IF ExceptExchangeRequestError(out)
           THEN /\ w_log' = Append(w_log, w_index)
                /\ IF Retry(w_index, w_retry)
                   THEN /\ w_pc' = "sleep"
                        /\ UNCHANGED w_result
                   ELSE /\ w_pc' = "returned"
                        /\ w_result' = "None"
           ELSE /\ w_pc' = "raised"
                /\ w_result' = out
                /\ UNCHANGED w_log
    /\ UNCHANGED <<w_name, w_retry, w_index>>
    /\ UNCHANGED <<LoopAndAssetVars, clockVars>>

\* sleep(self.retry_delay), then the recursive call.
SleepAndRetry ==
    /\ w_pc = "sleep"
    /\ w_events' = Append(w_events, SleepEvent(retry_delay))
    /\ w_index' = NextAttempt(w_index)
    /\ w_pc' = "try"
    /\ UNCHANGED <<w_name, w_retry, w_log, w_outcome, w_result>>
    /\ UNCHANGED <<LoopAndAssetVars, clockVars>>

NextRetry ==
    \/ CallWrapper
    \/ InvokeOperation
    \/ SleepAndRetry

SpecRetry == Init /\ [][NextRetry]_vars

\* The thread inside a wrapper runs its next statement, and sleep returns.
SpecRetryFair ==
    SpecRetry /\ WF_vars(InvokeOperation) /\ WF_vars(SleepAndRetry)

TypeOK ==
    /\ pc \in {"idle", "update_portfolio", "check_open_orders", "get_order",
               "process_transactions", "strategy", "order", "get_open_orders",
               "validate", "perf", "before_trading_start", "exited",
               "crashed"}
    /\ tick \in 0..MaxTicks
    /\ is_running \in BOOLEAN
    /\ open_orders \subseteq Orders
    /\ placed \in 0..MaxOrders
    /\ error \in {"none", "TypeError", "KeyError", "StrategyError",
                 "OrderNotFound", "ExchangeRequestError", "PerfError",
                 "OrderInBeforeTradingStart"}
    /\ in_before_trading_start \in BOOLEAN
    /\ failed_ticks \subseteq 1..MaxTicks
    /\ pass_orders \subseteq Orders

\* ------------------------------------------------------------------ claims

\* The for loop over the tick's transactions has run to its end in the
\* current handle_data call.
TransactionsRecorded == "process_transactions" \in Range(tick_steps)

\* Retry setting of the wrapper whose connector operation ran last.
Budget(w) ==
    CASE w = "update_portfolio" -> retry_update_portfolio
      [] w = "check_open_orders" -> retry_check_open_orders
      [] w = "get_open_orders" -> retry_get_open_orders
      [] w = "order" -> retry_order
      [] OTHER -> 0

\* C1: once handle_data has handed the tick's transactions to
\* perf_tracker.process_transaction, every order that reconciliation removed
\* from the open set as FILLED has had its Transaction handed over, also
\* when a later get_order of the same pass failed and the pass was retried.
C1_FilledOrderIsRecorded ==
    TransactionsRecorded => filled_removed \subseteq processed

\* C2: exactly one Transaction is created per order reconciled as FILLED,
\* and never a second one in a later or retried pass.
C2_OneTransactionPerFill ==
    \A o \in Orders :
        /\ created[o] <= 1
        /\ (o \in filled_removed <=> created[o] = 1)

\* C2 witness: a retried pass has completed without building a Transaction
\* for an order that an earlier pass reconciled as FILLED.
C2_Witness ==
    /\ pc = "process_transactions"
    /\ txresult.kind = "list"
    /\ attempt_index > 0
    /\ \E o \in filled_removed :
        created[o] = 1 /\ o \notin Range(txresult.val)

\* C3: when a reconciliation pass has completed, no order is in the
\* open-orders mapping that the pass observed FILLED or CANCELLED.
C3_NoTerminalOrderStaysOpen ==
    (pc = "process_transactions" /\ txresult.kind = "list") =>
        \A o \in open_orders : observed[o] \notin {"FILLED", "CANCELLED"}

\* C3 witness: a completed pass observed one order FILLED and one CANCELLED.
C3_Witness ==
    /\ pc = "process_transactions"
    /\ txresult.kind = "list"
    /\ \E o \in Orders : observed[o] = "FILLED"
    /\ \E o \in Orders : observed[o] = "CANCELLED"

\* C4: an order() call that saw N transient errors returns the placed order
\* iff N <= retry_order, and with N > retry_order it ends with
\* ExchangeRequestErrorTooManyAttempts or OrderRejected.
C4_OrderSurfacesExhaustion ==
    order_outcome \notin {"none", "OrderInBeforeTradingStart"} =>
        /\ (order_outcome = "returned" <=> order_fails <= retry_order)
        /\ (order_fails > retry_order =>
                order_outcome \in {"ExchangeRequestErrorTooManyAttempts",
                                   "OrderRejected"})

\* C5: when they give up, _check_open_orders returns an empty list of
\* transactions and _get_open_orders an empty open-order list.
C5_ExhaustedReadIsEmpty ==
    /\ (check_exhausted => txresult = ListOf(<<>>))
    /\ (goo_exhausted => goo_result = ListOf({}))

\* C6: a tick in which the open-order check gave up is not aborted:
\* without an interrupt, nothing is raised out of handle_data.
C6_ExhaustedCheckKeepsTick ==
    (check_exhausted /\ handler_runs = 0) =>
        (pc # "crashed" /\ error = "none")

\* C7 (as stated): one wrapper call invokes the connector operation at most
\* as many times as the retry setting of its category.
C7_CallsWithinSetting == calls <= Budget(op)

\* C7 (amended): one wrapper call invokes the connector operation at most
\* once more than the retry setting of its category: the first attempt
\* and that many retries.
C7_CallsWithinSettingPlusOne == calls <= Budget(op) + 1

\* C7 witness: one order() call has submitted the order twice.
C7_Witness == op = "order" /\ calls = retry_order + 1

\* C8: the report passed to analyze holds every snapshot appended before
\* the interrupt, once each, in the order recorded, indexed by its
\* period_close.
C8_ReportHoldsAllSnapshots ==
    analyze_calls > 0 =>
        /\ Len(report) = Len(minute_perfs)
        /\ \A i \in 1..Len(report) :
            /\ report[i].index = minute_perfs[i].period_close
            /\ report[i].transactions = minute_perfs[i].transactions
        /\ \A i, j \in 1..Len(report) :
            i < j => report[i].index < report[j].index

\* C8 witness: the interrupt arrived in a tick, inside the try block before
\* that tick's snapshot was appended, and the report holds the snapshot of
\* the earlier tick.
C8_Witness ==
    /\ analyze_calls > 0
    /\ interrupt_pc = "perf"
    /\ Len(report) >= 1
    /\ tick > Len(report)

\* C9: once is_running is false it stays false, and no step invokes a
\* connector operation, completes a step of handle_data or appends a
\* snapshot.
C9_NoTickAfterShutdown ==
    [][~is_running =>
        /\ ~is_running'
        /\ calls' = calls
        /\ op' = op
        /\ minute_perfs' = minute_perfs
        /\ (tick_steps' = tick_steps \/ tick_steps' = <<>>)]_vars

\* C9 witness: handle_data was called after the handler had cleared the
\* flag and returned at the flag test.
C9_Witness == ~is_running /\ skipped /\ pc = "idle" /\ tick_steps = <<>>

\* C10: whenever signal_handler has run, it has called analyze exactly
\* once, the process has terminated and no error was raised.
C10_HandlerIsSafe ==
    handler_runs > 0 =>
        (analyze_calls = 1 /\ pc = "exited" /\ error = "none")

\* C11: a tick that is in flight when the interrupt arrives completes: the
\* handler, run in the middle of a tick with snapshots to report, leaves
\* the thread of control at the step it interrupted, so that the rest of
\* the tick still runs.
C11_InFlightTickCompletes ==
    [][(handler_runs' > handler_runs /\ pc # "idle" /\ minute_perfs # <<>>)
        => pc' = pc]_vars

\* C12: an unexpected error in one step of a tick (the strategy callback
\* raising, an unknown order during reconciliation) does not leave
\* handle_data and does not stop the loop.
C12_StepErrorStaysInStep ==
    pc = "crashed" => error \notin {"StrategyError", "OrderNotFound"}

\* C13: a transient request error of the connector reaches the strategy
\* only after the call has been retried; it never propagates on the first
\* failure of an order(), cancel_order() or get_open_orders() call.
C13_TransientErrorIsRetried ==
    error = "ExchangeRequestError" => calls > 1

\* C14: order() called during before_trading_start fails with
\* OrderInBeforeTradingStart, and as long as before_trading_start runs no
\* connector operation is invoked, the open-orders mapping is unchanged and
\* nothing is registered with the performance tracker.
C14_PrematureOrderHasNoEffect ==
    [][/\ in_before_trading_start =>
            /\ calls' = calls
            /\ op' = op
            /\ placed' = placed
            /\ open_orders' = open_orders
            /\ perf_orders' = perf_orders
       /\ (/\ pc = "before_trading_start"
           /\ handler_runs' = handler_runs
           /\ pc' \in {"order", "crashed"}) =>
            /\ order_outcome' = "OrderInBeforeTradingStart"
            /\ error' = "OrderInBeforeTradingStart"]_vars

\* C14 witness: order() was called in before_trading_start and raised.
C14_Witness ==
    /\ in_before_trading_start
    /\ order_outcome = "OrderInBeforeTradingStart"
    /\ calls = 0
    /\ open_orders = {}

\* C15: the step in which the performance snapshot fails raises nothing
\* out of handle_data, ends the tick, appends no snapshot and leaves the
\* earlier snapshots as they were.
C15_SnapshotFailureIsAbsorbed ==
    [][failed_ticks' # failed_ticks =>
        /\ minute_perfs' = minute_perfs
        /\ pc' = "idle"
        /\ error' = "none"]_vars

\* C15 witness: the snapshot of the first tick failed and the second tick
\* was processed and recorded its snapshot.
C15_Witness ==
    /\ failed_ticks = {1}
    /\ Len(minute_perfs) = 1
    /\ minute_perfs[1].period_close = 2

\* Positions of a step in the steps of the current handle_data call.
Occurrences(step) == {i \in 1..Len(tick_steps) : tick_steps[i] = step}

\* C16: account controls are validated at most once in a tick and only
\* right after the strategy callback, and a tick that was processed to
\* its end has validated them exactly once, whether or not the strategy
\* placed an order.
C16_ValidatedOncePerTick ==
    /\ Cardinality(Occurrences("validate")) <= 1
    /\ \A i \in Occurrences("validate") :
        i > 1 /\ tick_steps[i - 1] = "strategy"
    /\ (pc \in {"perf", "idle"} /\ tick_steps # <<>>) =>
        Cardinality(Occurrences("validate")) = 1

\* C16 witness: a tick in which the strategy placed no order has ended
\* with the account controls validated.
C16_Witness ==
    /\ pc = "idle"
    /\ order_outcome = "none"
    /\ Occurrences("validate") # {}
    /\ Occurrences("perf") # {}

\* Steps of handle_data in the order of the claim.
StepOrder ==
    <<"update_portfolio", "check_open_orders", "process_transactions",
      "strategy", "validate", "perf">>

\* C19: the steps of a tick run in the order portfolio sync,
\* reconciliation, recording of transactions, strategy callback, account
\* controls, snapshot; the callback runs only after the reconciliation
\* and recording of its tick and at most once; reconciliation runs only
\* after the sync of its own tick, hence after the callback of the
\* previous tick has returned.
C19_StepsInOrder ==
    /\ Len(tick_steps) <= Len(StepOrder)
    /\ \A i \in 1..Len(tick_steps) : tick_steps[i] = StepOrder[i]
    /\ (pc \in {"strategy", "order", "get_open_orders"}
            /\ ~in_before_trading_start) =>
        tick_steps = SubSeq(StepOrder, 1, 3)
    /\ pc \in {"check_open_orders", "get_order"} =>
        tick_steps = SubSeq(StepOrder, 1, 1)

\* C19 witness: the second tick has run all six steps.
C19_Witness == tick = 2 /\ tick_steps = StepOrder /\ pc = "idle"

\* C20: in a completed pass every order of the open set at the start of
\* the pass was polled exactly once and no other order was polled; an
\* order observed CANCELLED has left the open set without a Transaction;
\* an order observed OPEN or REJECTED is still open, without a Transaction.
C20_PassEffects ==
    /\ \A o \in Orders : polled[o] <= 1
    /\ (pc = "process_transactions" /\ txresult.kind = "list") =>
        \A o \in Orders :
            /\ polled[o] = IF o \in pass_orders THEN 1 ELSE 0
            /\ observed[o] = "CANCELLED" =>
                (o \notin open_orders /\ o \notin Range(txresult.val))
            /\ observed[o] \in {"OPEN", "REJECTED"} =>
                (o \in open_orders /\ o \notin Range(txresult.val))

\* C20 witness: a completed pass observed one order CANCELLED and then
\* polled another one, observed REJECTED.
C20_Witness ==
    /\ pc = "process_transactions"
    /\ txresult.kind = "list"
    /\ \E o \in Orders : observed[o] = "CANCELLED"
    /\ \E o \in Orders : observed[o] = "REJECTED"

\* Keys of the registry whose symbol equals sym ignoring case.
Matching(sym) == {k \in DOMAIN assets : Lower(assets[k]) = Lower(sym)}

\* C17: get_asset returns the registered asset whose symbol equals the
\* argument ignoring case, raises SymbolNotFound when there is none and a
\* different error when more than one registered asset matches.
C17_LookupDistinguishesCollision ==
    asset_query # "none" =>
        IF Matching(asset_query) = {}
        THEN asset_result.kind = "SymbolNotFound"
        ELSE IF Cardinality(Matching(asset_query)) = 1
        THEN asset_result.kind = "asset"
                /\ asset_result.key \in Matching(asset_query)
        ELSE asset_result.kind = "MultipleSymbolsFound"

\* Number of ticks of one session with minute emission.
MinutesOfSession == (SessionClose(1) - SessionOpen(1)) \div 60 + 1

\* The clock was asked for minute emission.
MinuteEmission ==
    clock_in.data_frequency = "minute" /\ clock_in.emission_rate = "minute"

\* C18: the ticks of the clock are strictly increasing and carry the time
\* skew on every boundary. Minute emission: the ticks of session s start at
\* its open plus the skew, are one minute apart and end at its close plus the
\* skew. Session emission: tick s is the single tick of session s, at its
\* close plus the skew.
C18_TicksFollowSkewedSchedule ==
    clock_args.created =>
        /\ \A i \in 1..(Len(clock_ticks) - 1) :
            clock_ticks[i] < clock_ticks[i + 1]
        /\ MinuteEmission =>
            /\ Len(clock_ticks) <= clock_in.sessions * MinutesOfSession
            /\ \A i \in 1..Len(clock_ticks) :
                LET s == (i - 1) \div MinutesOfSession + 1
                    k == (i - 1) % MinutesOfSession
                IN /\ clock_ticks[i] =
                        SessionOpen(s) + clock_in.time_skew + 60 * k
                   /\ k = MinutesOfSession - 1 =>
                        clock_ticks[i] = SessionClose(s) + clock_in.time_skew
        /\ ~MinuteEmission =>
            /\ Len(clock_ticks) <= clock_in.sessions
            /\ \A i \in 1..Len(clock_ticks) :
                clock_ticks[i] = SessionClose(i) + clock_in.time_skew

\* C18 witness: minute emission with a skew of +2 s has emitted the whole
\* first session, from 09:30:02 to 16:00:02.
C18_Witness ==
    /\ MinuteEmission
    /\ clock_in.time_skew = 2
    /\ Len(clock_ticks) = MinutesOfSession
    /\ clock_ticks[1] = 9 * 3600 + 30 * 60 + 2
    /\ clock_ticks[MinutesOfSession] = 16 * 3600 + 2
    /\ clock_ticks[2] - clock_ticks[1] = 60

\* Connector invocations and sleeps of the wrapper call so far.
Invocations ==
    Cardinality({i \in 1..Len(w_events) : w_events[i].kind = "invoke"})
Sleeps ==
    Cardinality({i \in 1..Len(w_events) : w_events[i].kind = "sleep"})

\* Errors of the connector other than the transient request error.
OtherErrors == ConnectorErrors \ {"ExchangeRequestError"}

\* C21: a retry wrapper retries only the transient request error. When the
\* connector operation raises any other error (ValueError for a malformed
\* response, OrderNotFound, SymbolNotFound), the wrapper call ends with
\* that very error at once: the failed invocation is the last event of the
\* call (no sleep and no invocation follow it), the error is not logged as
\* an attempt, and every sleep of the call stands before that invocation,
\* one per earlier (transient) failure.
C21_OtherErrorPropagatesAtOnce ==
    w_outcome \in OtherErrors =>
        /\ w_pc = "raised"
        /\ w_result = w_outcome
        /\ w_events[Len(w_events)] = InvokeEvent
        /\ Len(w_log) = Invocations - 1
        /\ Sleeps = Invocations - 1

\* C21 witness: _check_open_orders with a retry setting of 5 met one
\* transient error, slept, invoked the operation again and let its
\* OrderNotFound through.
C21_Witness ==
    /\ w_name = "_check_open_orders"
    /\ w_retry = retry_check_open_orders
    /\ w_pc = "raised"
    /\ w_result = "OrderNotFound"
    /\ w_log = <<0>>
    /\ w_events = <<InvokeEvent, SleepEvent(retry_delay), InvokeEvent>>

\* Every invocation of the wrapper call so far raised the transient error.
AllTransient == w_name # "none" /\ Len(w_log) = Invocations

\* The wrapper call is under way.
Running == w_pc \in {"try", "sleep"}

\* What holds at every point of a wrapper call whose connector has raised
\* the transient error on every invocation.
AllTransientShape ==
    AllTransient =>
        /\ w_pc # "raised"
        /\ Invocations <= w_retry + 1
        /\ w_log = [i \in 1..Len(w_log) |-> i - 1]
        /\ \A i \in 1..Len(w_events) :
            w_events[i] = IF i % 2 = 1 THEN InvokeEvent
                          ELSE SleepEvent(retry_delay)
        /\ w_pc = "returned" =>
            /\ w_events[Len(w_events)] = InvokeEvent
            /\ Sleeps = Invocations - 1

====
